---------------------------- MODULE Spec2Model ----------------------------
(***************************************************************************)
(* Model of src/brunch.py (FruehstuecksBrunchManager): the event date      *)
(* resolver (third Sunday of the month, administrator override and         *)
(* cancellation), the registration table, the configuration store and the  *)
(* background thread that resets the registration table after an event.    *)
(*                                                                         *)
(* Dates are records [y, m, d]; a wall-clock time in Europe/Berlin is a    *)
(* record [y, m, d, s] (s = second of the day); an aware datetime is a     *)
(* record [y, m, d, s, off] whose off is the UTC offset in hours of the    *)
(* tzinfo object attached to it.  Aware datetimes are compared as Python   *)
(* compares them: by the instant they denote.                              *)
(***************************************************************************)
EXTENDS Integers, Sequences, FiniteSets, TLC

VARIABLES
    now,          \* wall clock, Europe/Berlin: [y, m, d, s]
    cfgOverride,  \* config row 'next_date_override' (a stored string)
    cfgCancelled, \* config row 'next_date_cancelled': "none", "0" or "1"
    participants, \* table brunch_participants: sequence of rows
    itemsFile,    \* mitbringsel.txt: the items offered in the form
    logFile,      \* teilnahmen.log: the lines appended so far
    bg,           \* the thread reset_database_at_event_time
    hist,         \* observations of the last handler / thread step
    arg,          \* argument of the function under evaluation
    ret           \* value returned by the function under evaluation

vars == <<now, cfgOverride, cfgCancelled, participants, itemsFile, logFile, bg,
          hist, arg, ret>>

-----------------------------------------------------------------------------
(* Bounds of the model.                                                    *)

\* Years over which event_date_for_month is evaluated on its own.
DateYearLo == 1999
DateYearHi == 2101

\* The resolver is evaluated at wall-clock times of the years
\* MinYear .. MinYear + ResolverYears - 1.
MinYear == 2025
ResolverYears == 1

\* The running system is observed for MainDays days, from MainLeadDays
\* days before the third Sunday of December of MinYear on.
MainLeadDays == 2
MainDays == 6

\* Rows the registration table may hold before the model stops adding.
MaxParticipants == 2

-----------------------------------------------------------------------------
(* The proleptic Gregorian calendar of Python's datetime.                  *)

IsLeap(y) == (y % 4 = 0) /\ ((y % 100 # 0) \/ (y % 400 = 0))

DaysInMonth(y, m) ==
    IF m = 2 THEN (IF IsLeap(y) THEN 29 ELSE 28)
    ELSE IF m \in {4, 6, 9, 11} THEN 30 ELSE 31

DaysBeforeYear(y) ==
    (y - 1) * 365 + ((y - 1) \div 4) - ((y - 1) \div 100) + ((y - 1) \div 400)

\* Days of the year before the first of month m.
DaysBeforeMonth(y, m) ==
    <<0, 31, 59, 90, 120, 151, 181, 212, 243, 273, 304, 334>>[m]
        + (IF m > 2 /\ IsLeap(y) THEN 1 ELSE 0)

\* date.toordinal(): 0001-01-01 is day 1.
Ordinal(y, m, d) == DaysBeforeYear(y) + DaysBeforeMonth(y, m) + d

\* date.weekday(): Monday = 0 ... Sunday = 6.
Weekday(y, m, d) == (Ordinal(y, m, d) + 6) % 7

Date(y, m, d) == [y |-> y, m |-> m, d |-> d]

FirstOfNextMonth(dt) ==
    IF dt.m < 12 THEN Date(dt.y, dt.m + 1, 1) ELSE Date(dt.y + 1, 1, 1)

LastOfPrevMonth(dt) ==
    IF dt.m > 1 THEN Date(dt.y, dt.m - 1, DaysInMonth(dt.y, dt.m - 1))
    ELSE Date(dt.y - 1, 12, 31)

NextDay(dt) ==
    IF dt.d < DaysInMonth(dt.y, dt.m) THEN Date(dt.y, dt.m, dt.d + 1)
    ELSE FirstOfNextMonth(dt)

\* date + timedelta(days=n), n of either sign: month by month.
RECURSIVE AddDays(_, _)
AddDays(dt, n) ==
    IF dt.d + n > DaysInMonth(dt.y, dt.m)
    THEN AddDays(FirstOfNextMonth(dt), n - (DaysInMonth(dt.y, dt.m) - dt.d + 1))
    ELSE IF dt.d + n < 1
    THEN AddDays(LastOfPrevMonth(dt), n + dt.d)
    ELSE Date(dt.y, dt.m, dt.d + n)

DateLess(a, b) == Ordinal(a.y, a.m, a.d) < Ordinal(b.y, b.m, b.d)

-----------------------------------------------------------------------------
(* pytz.timezone('Europe/Berlin'): CET (UTC+1), and CEST (UTC+2) from the  *)
(* last Sunday of March, 02:00 CET, to the last Sunday of October, 03:00   *)
(* CEST.                                                                   *)

SecondsPerHour == 60 * 60
SecondsPerDay == 24 * 60 * 60

LastSunday(y, m) ==
    DaysInMonth(y, m) - ((Weekday(y, m, DaysInMonth(y, m)) + 1) % 7)

\* UTC offset (hours) of the wall-clock time s seconds into the day dt.
BerlinOffset(dt, s) ==
    LET o     == Ordinal(dt.y, dt.m, dt.d)
        start == Ordinal(dt.y, 3, LastSunday(dt.y, 3))
        end   == Ordinal(dt.y, 10, LastSunday(dt.y, 10))
        summer == /\ (o > start \/ (o = start /\ s >= 3 * SecondsPerHour))
                  /\ (o < end \/ (o = end /\ s < 2 * SecondsPerHour))
    IN IF summer THEN 2 ELSE 1

\* An aware datetime: wall-clock fields and the offset of its tzinfo.
Aware(dt, s, off) == [y |-> dt.y, m |-> dt.m, d |-> dt.d, s |-> s, off |-> off]

\* berlin_tz.localize(datetime(y, m, d)): midnight with the offset valid then.
Localize(dt) == Aware(dt, 0, BerlinOffset(dt, 0))

\* datetime.now(berlin_tz): the wall clock with the offset valid now.
NowAware(t) == Aware(t, t.s, BerlinOffset(t, t.s))

\* aware + timedelta(days=n): wall-clock arithmetic, the tzinfo is kept.
PlusDays(a, n) == Aware(AddDays(a, n), a.s, a.off)

\* aware.replace(hour=h, minute=0, second=0, microsecond=0): the tzinfo is kept.
ReplaceHour(a, h) == Aware(a, h * SecondsPerHour, a.off)

\* The instant an aware datetime denotes, in seconds (UTC) since the first
\* midnight UTC of the year before MinYear.
Instant(a) ==
    (Ordinal(a.y, a.m, a.d) - Ordinal(MinYear - 1, 1, 1)) * SecondsPerDay
        + a.s - a.off * SecondsPerHour

\* a < b, a <= b on aware datetimes.
AwareLess(a, b) == Instant(a) < Instant(b)
AwareLeq(a, b) == Instant(a) <= Instant(b)

-----------------------------------------------------------------------------
(* event_date_for_month                                                    *)

\* A plausible slip: Sunday taken as weekday 7 instead of 6.
event_date_for_month_wrong_weekday(year, month) ==
    LET first_day == Localize(Date(year, month, 1))
        first_sunday == PlusDays(first_day, (7 - Weekday(year, month, 1)) % 7)
    IN PlusDays(first_sunday, 14)

event_date_for_month(year, month) ==
    LET first_day == Localize(Date(year, month, 1))
        first_sunday == PlusDays(first_day, (6 - Weekday(year, month, 1)) % 7)
        third_sunday == PlusDays(first_sunday, 14)
    IN third_sunday

-----------------------------------------------------------------------------
(* Strings held in the config table and exchanged with the date functions. *)
(* A stored string is absent (get_config returns None), empty, of the      *)
(* shape dd.mm.yyyy with the numbers d, m, y (which need not be a date of  *)
(* the calendar), of the shape dd.mm.y with a year written in fewer than   *)
(* four digits, or some other text.                                        *)

StrVal(kind, d, m, y) == [kind |-> kind, d |-> d, m |-> m, y |-> y]
NoRow == StrVal("none", 0, 0, 0)
EmptyStr == StrVal("empty", 0, 0, 0)
OtherText == StrVal("text", 0, 0, 0)
DmyStr(d, m, y) == StrVal("dmy", d, m, y)
ShortYearStr(d, m, y) == StrVal("dmy_short", d, m, y)

\* Python truth value of what get_config returns: None and '' are false.
Truthy(v) == v.kind \notin {"none", "empty"}

\* datetime.strptime(v, '%d.%m.%Y') returns (does not raise ValueError).
ParsesDmy(v) ==
    /\ v.kind = "dmy"
    /\ v.y \in 1..9999
    /\ v.m \in 1..12
    /\ v.d \in 1..DaysInMonth(v.y, v.m)

\* The naive datetime strptime returns (midnight of the date).
strptime_dmy(v) == Date(v.y, v.m, v.d)

\* dt.strftime('%d.%m.%Y'): the C library's %Y does not pad the year, so a
\* year below 1000 comes out in fewer than four digits ('01.01.999'),
\* which strptime's %Y (exactly four digits) does not accept.
strftime_dmy(dt) ==
    IF dt.y >= 1000 THEN DmyStr(dt.d, dt.m, dt.y)
    ELSE ShortYearStr(dt.d, dt.m, dt.y)

-----------------------------------------------------------------------------
(* The resolver: functions of the clock and of the config table.           *)

is_event_cancelled_not_zero == cfgCancelled # "0"

is_event_cancelled == cfgCancelled = "1"

\* A plausible slip: the notice shown for whatever is stored.
should_show_exception_notice_any(override) == Truthy(override)

\* should_show_exception_notice() with the stored override it reads.
should_show_exception_notice_at(override) ==
    IF Truthy(override) /\ ParsesDmy(override)
    THEN LET next_date == Localize(strptime_dmy(override))
             default_date == event_date_for_month(next_date.y, next_date.m)
         IN Date(next_date.y, next_date.m, next_date.d)
                # Date(default_date.y, default_date.m, default_date.d)
    ELSE FALSE

should_show_exception_notice == should_show_exception_notice_at(cfgOverride)

\* A plausible slip: the cutoff compared with >= instead of >.
next_brunch_date_geq(override, t) ==
    IF Truthy(override) /\ ParsesDmy(override) THEN override
    ELSE LET event_day == event_date_for_month(t.y, t.m)
             month == (t.m % 12) + 1
             year == t.y + (IF month = 1 THEN 1 ELSE 0)
         IN IF AwareLeq(ReplaceHour(event_day, 15), NowAware(t))
            THEN strftime_dmy(event_date_for_month(year, month))
            ELSE strftime_dmy(event_day)

\* A plausible slip: the override is honoured only while it lies ahead.
next_brunch_date_future_only(override, t) ==
    IF /\ Truthy(override) /\ ParsesDmy(override)
       /\ AwareLeq(NowAware(t), ReplaceHour(Localize(strptime_dmy(override)), 15))
    THEN override
    ELSE LET event_day == event_date_for_month(t.y, t.m)
             month == (t.m % 12) + 1
             year == t.y + (IF month = 1 THEN 1 ELSE 0)
         IN IF AwareLess(ReplaceHour(event_day, 15), NowAware(t))
            THEN strftime_dmy(event_date_for_month(year, month))
            ELSE strftime_dmy(event_day)

\* next_brunch_date() with the stored override and the clock it reads.
next_brunch_date_at(override, t) ==
    IF Truthy(override) /\ ParsesDmy(override) THEN override
    ELSE LET event_day == event_date_for_month(t.y, t.m)
             month == (t.m % 12) + 1
             year == t.y + (IF month = 1 THEN 1 ELSE 0)
         IN IF AwareLess(ReplaceHour(event_day, 15), NowAware(t))
            THEN strftime_dmy(event_date_for_month(year, month))
            ELSE strftime_dmy(event_day)

next_brunch_date == next_brunch_date_at(cfgOverride, now)

\* is_registration_open() with the rows and the clock it reads.
is_registration_open_at(override, cancelled, t) ==
    IF cancelled = "1" THEN FALSE
    ELSE LET next_brunch == Localize(strptime_dmy(next_brunch_date_at(override, t)))
             friday_before_brunch == ReplaceHour(PlusDays(next_brunch, -2), 0)
             brunch_end_time == ReplaceHour(next_brunch, 15)
         IN ~ (/\ AwareLeq(friday_before_brunch, NowAware(t))
               /\ AwareLeq(NowAware(t), brunch_end_time))

is_registration_open ==
    IF is_event_cancelled THEN FALSE
    ELSE is_registration_open_at(cfgOverride, "0", now)

\* current_brunch_date() with the stored override and the clock it reads.
current_brunch_date_at(override, t) ==
    IF Truthy(override) /\ ParsesDmy(override) THEN override
    ELSE strftime_dmy(event_date_for_month(t.y, t.m))

current_brunch_date == current_brunch_date_at(cfgOverride, now)

\* should_reset_database() with the stored override and the clock it reads.
should_reset_database_at(override, t) ==
    LET current_brunch == Localize(strptime_dmy(current_brunch_date_at(override, t)))
        reset_time == ReplaceHour(current_brunch, 15)
    IN AwareLess(reset_time, NowAware(t))

should_reset_database == should_reset_database_at(cfgOverride, now)

-----------------------------------------------------------------------------
(* Python datetimes in comparisons: strptime returns a naive datetime (no  *)
(* tzinfo), localize and now(tz) return aware ones.                        *)

IsNaive(a) == "off" \notin DOMAIN a

\* a < b on datetimes: "true", "false", or "TypeError" (can't compare
\* offset-naive and offset-aware datetimes).
\* A plausible repair of the comparison: both sides compared as dates.
DatetimeLess_by_date(a, b) == IF DateLess(a, b) THEN "true" ELSE "false"

DatetimeLess(a, b) ==
    IF IsNaive(a) # IsNaive(b) THEN "TypeError"
    ELSE IF IsNaive(a) THEN (IF DateLess(a, b) THEN "true" ELSE "false")
    ELSE (IF AwareLess(a, b) THEN "true" ELSE "false")

-----------------------------------------------------------------------------
(* The schedule update that ends a reset (the same statements in the       *)
(* thread and in the /reset_db handler): the values the config rows hold   *)
(* afterwards and the exception that escapes, if any.                      *)

ScheduleAfter(exc, override, cancelled) ==
    [exc |-> exc, override |-> override, cancelled |-> cancelled]

\* A plausible slip: a stored override that does not parse is left alone.
reset_schedule_keeps_malformed(stored, cancelled) ==
    IF Truthy(stored) /\ ParsesDmy(stored)
    THEN ScheduleAfter("TypeError", stored, cancelled)
    ELSE ScheduleAfter("none", stored, "0")

\* The schedule update run with the rows holding stored and cancelled.
reset_schedule_of(stored, cancelled) ==
    LET override == stored
    IN IF Truthy(override)
       THEN IF ParsesDmy(override)
            THEN LET override_dt == strptime_dmy(override)
                     default_dt == event_date_for_month(override_dt.y, override_dt.m)
                     less == DatetimeLess(override_dt, default_dt)
                     next_month == (override_dt.m % 12) + 1
                     next_year == override_dt.y + (IF override_dt.m = 12 THEN 1 ELSE 0)
                     next_dt == event_date_for_month(next_year, next_month)
                 IN IF less = "TypeError"
                    THEN ScheduleAfter("TypeError", stored, cancelled)
                    ELSE IF less = "true"
                    THEN ScheduleAfter("none", strftime_dmy(next_dt), "0")
                    ELSE ScheduleAfter("none", EmptyStr, "0")
            ELSE ScheduleAfter("none", EmptyStr, "0")
       ELSE ScheduleAfter("none", stored, "0")

reset_schedule == reset_schedule_of(cfgOverride, cfgCancelled)

-----------------------------------------------------------------------------
(* Values of the variables a specification does not use.                   *)

Hms(h, m, sec) == h * SecondsPerHour + m * 60 + sec

Clock(dt, s) == [y |-> dt.y, m |-> dt.m, d |-> dt.d, s |-> s]
MainEvent == event_date_for_month(MinYear, 12)
MainStart == AddDays(Date(MainEvent.y, MainEvent.m, MainEvent.d), - MainLeadDays)

NowInstant == Instant(NowAware(now))

BgState(pc, wake) == [pc |-> pc, wake |-> wake]
\* Observations: the answer of the /reset_db request made at the present
\* time, if any (status); the instant of the last reset by the thread
\* (cleared, -1 before the first) and the cutoff of the event that
\* next_brunch_date() named right after it (due); the value last written to
\* the row 'next_date_cancelled' (written); the override that the reset
\* made at the present time read (found, NotRead if none was made); the
\* date next_brunch_date() named when update_settings last ran (setfor,
\* NoRow before the first); the date next_brunch_date() named when the
\* public form last accepted a registration since a reset last emptied the
\* table (regfor, NoRow if it has accepted none since; kept in SpecKeep).
NotRead == StrVal("unread", 0, 0, 0)
Hist(status, due, cleared, written) ==
    [status |-> status, due |-> due, cleared |-> cleared, written |-> written,
     found |-> NotRead, setfor |-> NoRow, regfor |-> NoRow]
NoRet == [fn |-> "none"]
NoArg == [y |-> 0, m |-> 0]

-----------------------------------------------------------------------------
(* SpecDate: event_date_for_month evaluated for a year and a month.        *)

InitDate ==
    /\ now = Clock(MainStart, 0)
    /\ cfgOverride = NoRow
    /\ cfgCancelled = "none"
    /\ participants = << >>
    /\ itemsFile = {}
    /\ logFile = {}
    /\ bg = BgState("dead", 0)
    /\ hist = Hist("none", -1, -1, "none")
    /\ arg \in [y : DateYearLo..DateYearHi, m : 1..12]
    /\ ret = NoRet

CallEventDate ==
    /\ ret.fn = "none"
    /\ ret' = [fn |-> "event_date_for_month",
               val |-> event_date_for_month(arg.y, arg.m)]
    /\ UNCHANGED <<now, cfgOverride, cfgCancelled, participants, itemsFile,
                   logFile, bg, hist, arg>>

NextDate == CallEventDate

SpecDate == InitDate /\ [][NextDate]_vars

-----------------------------------------------------------------------------
(* SpecResolver: the resolver functions evaluated at a wall-clock time for *)
(* a stored schedule.                                                      *)

\* Seconds of the day at which the resolver is evaluated.
ResolverTods ==
    {Hms(0, 0, 0), Hms(0, 0, 1), Hms(12, 0, 0),
     Hms(14, 59, 59), Hms(15, 0, 0), Hms(15, 0, 1), Hms(23, 59, 59)}

\* Stored override dates, as days from the day of evaluation.
OverrideOffsets == {-35, -1, 0, 1, 2, 3, 35}

ResolverTimes ==
    UNION { UNION { { Clock(Date(y, m, d), s) :
                        d \in 1..DaysInMonth(y, m), s \in ResolverTods } :
                    m \in 1..12 } :
            y \in MinYear..(MinYear + ResolverYears - 1) }

\* Stored strings that strptime('%d.%m.%Y') rejects: text, a day the
\* month does not have, a year of three digits.
MalformedOverrides ==
    {OtherText, DmyStr(30, 2, MinYear), ShortYearStr(1, 1, 999)}

InitResolver ==
    /\ now \in ResolverTimes
    /\ cfgOverride \in {NoRow, EmptyStr}
                       \cup { strftime_dmy(AddDays(now, k)) : k \in OverrideOffsets }
                       \cup MalformedOverrides
    /\ cfgCancelled \in {"none", "0", "1"}
    /\ participants = << >>
    /\ itemsFile = {}
    /\ logFile = {}
    /\ bg = BgState("dead", 0)
    /\ hist = Hist("none", -1, -1, "none")
    /\ arg = NoArg
    /\ ret = NoRet

Resolve ==
    /\ ret.fn = "none"
    /\ ret' = [fn |-> "resolver",
               next |-> next_brunch_date,
               current |-> current_brunch_date,
               open |-> is_registration_open,
               reset |-> should_reset_database,
               notice |-> should_show_exception_notice,
               cancelled |-> is_event_cancelled]
    /\ UNCHANGED <<now, cfgOverride, cfgCancelled, participants, itemsFile,
                   logFile, bg, hist, arg>>

NextResolver == Resolve

SpecResolver == InitResolver /\ [][NextResolver]_vars

-----------------------------------------------------------------------------
(* Form input of the administrator: override_date is a string of the shape *)
(* yyyy-mm-dd, empty, or other text.                                       *)

YmdStr(y, m, d) == StrVal("ymd", d, m, y)

\* datetime.strptime(v, '%Y-%m-%d') returns (does not raise ValueError).
ParsesYmd(v) ==
    /\ v.kind = "ymd"
    /\ v.y \in 1..9999
    /\ v.m \in 1..12
    /\ v.d \in 1..DaysInMonth(v.y, v.m)

strptime_ymd(v) == Date(v.y, v.m, v.d)

\* What the administrator submits as override_date.
\* The day before the third Sunday, that Sunday and the third day after
\* it, besides no date, a date the calendar does not have and a date of
\* the year 999.
OverrideInputs ==
    {EmptyStr, YmdStr(MinYear, 2, 30), YmdStr(999, 1, 1)}
        \cup { LET D == AddDays(MainEvent, k) IN YmdStr(D.y, D.m, D.d) :
                  k \in {-1, 0, 3} }

-----------------------------------------------------------------------------
(* Registrations: rows (name, item, for_coffee_only) of the table.  An     *)
(* item string is its characters in lower case (base) and the spelling of  *)
(* their case (form), so that lower() and capitalize() act; the character  *)
(* "sz" is the letter sharp s, which has no single upper-case letter.      *)

ItemStr(base, form) == [base |-> base, form |-> form]
NoItem == ItemStr(<< >>, "lower")
Brot == <<"b", "r", "o", "t">>
Eier == <<"e", "i", "e", "r">>
SzE == <<"sz", "e">>
K3 == <<"k", "3">>

\* str.lower()
Lower(i) == ItemStr(i.base, "lower")

\* str.capitalize() of a lower-case string: the first character in title
\* case (that of sharp s is 'Ss'), the others as they are.
Capitalize(i) ==
    IF i.base = << >> THEN i
    ELSE IF Head(i.base) = "sz" THEN ItemStr(<<"s", "s">> \o Tail(i.base), "cap")
    ELSE ItemStr(i.base, "cap")

Row(name, item, coffee) == [name |-> name, item |-> item, coffee |-> coffee]

Names == {"DO1ABC"}
ValidEmails == {"op@darc.de"}
Emails == ValidEmails \cup {"nomail"}
SelectedItems == {ItemStr(Brot, "cap")}
CustomItems == {NoItem}
CoffeeOnly == {FALSE}

validate_email(email) == email \in ValidEmails
ValidNames == Names \cup {"DL2XYZ"}
validate_name_or_call(text) == text \in ValidNames
\* validate_bringalong: letters, umlauts, sharp s and hyphens only, at
\* least one.
BringalongChars == {"b", "e", "i", "k", "o", "r", "s", "t", "sz", "-"}
validate_bringalong(text) ==
    /\ text.base # << >>
    /\ \A k \in 1..Len(text.base) : text.base[k] \in BringalongChars


RowSet(table) == {table[i] : i \in 1..Len(table)}
participant_exists(name) == \E r \in RowSet(participants) : r.name = name

\* DatabaseManager.reset_db: DELETE FROM brunch_participants
db_reset_db == << >>

\* save_participant_log with the file and the table it finds: a line per
\* row of the table is appended.
save_participant_log_of(file, table) ==
    file \cup {[name |-> r.name, item |-> r.item] : r \in RowSet(table)}

save_participant_log == save_participant_log_of(logFile, participants)

-----------------------------------------------------------------------------
(* The running system.                                                     *)

\* The times of the day at which the system is observed.
MainTods == <<Hms(15, 0, 0), Hms(15, 1, 0)>>

Init ==
    /\ now = Clock(MainStart, MainTods[1])
    /\ cfgOverride = NoRow
    /\ cfgCancelled = "none"
    /\ participants = << >>
    /\ itemsFile = {ItemStr(Brot, "cap")}
    /\ logFile = {}
    /\ bg = BgState("run", 0)
    /\ hist = Hist("none", -1, -1, "none")
    /\ arg = NoArg
    /\ ret = NoRet

\* The clock moves on to the next time of MainTods; a due poll of the
\* thread is not overslept.
DayIndex == Ordinal(now.y, now.m, now.d) - Ordinal(MainStart.y, MainStart.m, MainStart.d)

NextClock ==
    LET i == CHOOSE k \in 1..Len(MainTods) : MainTods[k] = now.s
    IN IF i < Len(MainTods) THEN Clock(now, MainTods[i + 1])
       ELSE Clock(NextDay(now), MainTods[1])

Tick ==
    /\ DayIndex < MainDays
    /\ (bg.pc = "dead" \/ NowInstant < bg.wake)
    /\ now' = NextClock
    /\ hist' = [hist EXCEPT !.status = "none", !.found = NotRead]
    /\ UNCHANGED <<cfgOverride, cfgCancelled, participants, itemsFile, logFile,
                   bg, arg, ret>>

\* Cutoff (the instant) of a date string, as the code computes it.
CutoffOf(v) == Instant(ReplaceHour(Localize(strptime_dmy(v)), 15))

\* What update_settings stores as override for the submitted override_date.
formatted(override_date) ==
    IF Truthy(override_date)
    THEN IF ParsesYmd(override_date)
         THEN strftime_dmy(strptime_ymd(override_date))
         ELSE EmptyStr
    ELSE EmptyStr

\* update_settings (POST /admin/update_settings)
update_settings(override_date, cancel_next) ==
    /\ cfgOverride' = formatted(override_date)
    /\ cfgCancelled' = IF cancel_next THEN "1" ELSE "0"
    /\ hist' = [hist EXCEPT
                  !.written = IF cancel_next THEN "1" ELSE "0",
                  !.setfor = next_brunch_date_at(formatted(override_date), now)]
    /\ UNCHANGED <<now, participants, itemsFile, logFile, bg, arg, ret>>

UpdateSettings ==
    \E override_date \in OverrideInputs, cancel_next \in BOOLEAN :
        update_settings(override_date, cancel_next)

\* One iteration of the loop of reset_database_at_event_time, up to its sleep.
reset_database_at_event_time ==
    /\ bg.pc = "run"
    /\ bg.wake <= NowInstant
    /\ UNCHANGED <<now, itemsFile, arg, ret>>
    /\ IF should_reset_database
       THEN LET after == reset_schedule
            IN /\ logFile' = save_participant_log
               /\ participants' = db_reset_db
               /\ cfgOverride' = after.override
               /\ cfgCancelled' = after.cancelled
               /\ bg' = IF after.exc = "none"
                        THEN BgState("run", NowInstant + SecondsPerDay)
                        ELSE BgState("dead", 0)
               /\ hist' = [hist EXCEPT
                             !.due = CutoffOf(next_brunch_date_at(after.override, now)),
                             !.cleared = NowInstant,
                             !.written = IF after.exc = "none" THEN "0" ELSE @,
                             !.found = cfgOverride,
                             !.regfor = NoRow]
       ELSE /\ bg' = BgState("run", NowInstant + 60)
            /\ UNCHANGED <<cfgOverride, cfgCancelled, participants, logFile, hist>>

\* reset_db (POST /reset_db)
reset_db ==
    LET after == reset_schedule
    IN /\ participants' = db_reset_db
       /\ cfgOverride' = after.override
       /\ cfgCancelled' = after.cancelled
       /\ hist' = [hist EXCEPT
                     !.status = IF after.exc = "none" THEN "200" ELSE "500",
                     !.written = IF after.exc = "none" THEN "0" ELSE @,
                     !.found = cfgOverride,
                     !.regfor = NoRow]
       /\ UNCHANGED <<now, itemsFile, logFile, bg, arg, ret>>

\* The answer of index to a POST: which branch of the handler is taken.
index_answer(name, email, selected_item, custom_item, for_coffee_only) ==
    LET item_lower == Lower(IF custom_item # NoItem THEN custom_item ELSE selected_item)
        taken == {Lower(r.item) : r \in RowSet(participants)}
    IN IF ~ is_registration_open THEN "closed"
       ELSE IF ~ validate_email(email) \/ ~ validate_name_or_call(name)
               \/ (custom_item # NoItem /\ ~ validate_bringalong(custom_item))
       THEN "invalid"
       ELSE IF participant_exists(name) THEN "exists"
       ELSE IF for_coffee_only THEN "added"
       ELSE IF item_lower \in taken THEN "taken"
       ELSE "added"

\* A plausible slip: the form handled without asking is_registration_open().
index_post_ungated(name, email, selected_item, custom_item, for_coffee_only) ==
    /\ Len(participants) < MaxParticipants
    /\ participants' = Append(participants, Row(name, selected_item, for_coffee_only))
    /\ UNCHANGED <<now, cfgOverride, cfgCancelled, itemsFile, logFile, bg, arg>>

\* index (POST /): a registration through the public form.
index_post(name, email, selected_item, custom_item, for_coffee_only) ==
    LET item_lower == Lower(IF custom_item # NoItem THEN custom_item ELSE selected_item)
        item_to_add == IF custom_item # NoItem THEN Capitalize(Lower(custom_item))
                       ELSE selected_item
        answer == index_answer(name, email, selected_item, custom_item,
                               for_coffee_only)
    IN /\ Len(participants) < MaxParticipants
       /\ IF answer # "added"
          THEN UNCHANGED <<participants, itemsFile>>
          ELSE IF for_coffee_only
          THEN /\ participants' = Append(participants, Row(name, NoItem, TRUE))
               /\ UNCHANGED itemsFile
          ELSE /\ itemsFile' =
                    IF custom_item # NoItem
                       /\ item_lower \notin {Lower(i) : i \in itemsFile}
                    THEN itemsFile \cup {Capitalize(Lower(custom_item))}
                    ELSE itemsFile
               /\ participants' = Append(participants, Row(name, item_to_add, FALSE))
       /\ UNCHANGED <<now, cfgOverride, cfgCancelled, logFile, bg, arg>>

IndexPost ==
    \E name \in Names, email \in Emails, selected_item \in SelectedItems,
       custom_item \in CustomItems, for_coffee_only \in CoffeeOnly :
        /\ index_post(name, email, selected_item, custom_item, for_coffee_only)
        /\ UNCHANGED <<hist, ret>>

Next ==
    \/ Tick
    \/ UpdateSettings
    \/ reset_database_at_event_time
    \/ reset_db
    \/ IndexPost

Spec == Init /\ [][Next]_vars

\* The thread is scheduled and the clock moves on.
FairSpec ==
    Spec /\ WF_vars(Tick) /\ WF_vars(reset_database_at_event_time)

-----------------------------------------------------------------------------
(* SpecKeep: the public form and the reset thread over the days observed,  *)
(* no administrator at work; hist.regfor keeps the event a registration    *)
(* was accepted for.                                                       *)

KeepSelectedItems == {ItemStr(Brot, "cap"), ItemStr(Eier, "cap")}

KeepPost ==
    \E name \in ValidNames, email \in Emails, selected_item \in KeepSelectedItems,
       custom_item \in CustomItems, for_coffee_only \in BOOLEAN :
        /\ index_post(name, email, selected_item, custom_item, for_coffee_only)
        /\ hist' = IF index_answer(name, email, selected_item, custom_item,
                                   for_coffee_only) = "added"
                   THEN [hist EXCEPT !.regfor = next_brunch_date]
                   ELSE hist
        /\ UNCHANGED ret

NextKeep ==
    \/ Tick
    \/ reset_database_at_event_time
    \/ KeepPost

SpecKeep == Init /\ [][NextKeep]_vars

-----------------------------------------------------------------------------
(* SpecForm: the public form posted at any time of the days observed, for  *)
(* a stored schedule; the answer and the table and item file the handler   *)
(* found are kept in ret.                                                  *)

FormNames == ValidNames
FormSelectedItems == {ItemStr(Brot, "cap"), ItemStr(Eier, "cap")}
FormCustomItems == {NoItem, ItemStr(Brot, "upper"), ItemStr(K3, "lower")}

InitForm ==
    /\ now = Clock(MainStart, MainTods[1])
    /\ cfgOverride \in
         {NoRow, strftime_dmy(AddDays(Date(MainEvent.y, MainEvent.m, MainEvent.d), 3))}
    /\ cfgCancelled \in {"none", "0", "1"}
    /\ participants = << >>
    /\ itemsFile = FormSelectedItems
    /\ logFile = {}
    /\ bg = BgState("dead", 0)
    /\ hist = Hist("none", -1, -1, "none")
    /\ arg = NoArg
    /\ ret = NoRet

FormPost ==
    \E name \in FormNames, email \in Emails, selected_item \in FormSelectedItems,
       custom_item \in FormCustomItems, for_coffee_only \in BOOLEAN :
        /\ index_post(name, email, selected_item, custom_item, for_coffee_only)
        /\ UNCHANGED hist
        /\ ret' = [fn |-> "index",
                   answer |-> index_answer(name, email, selected_item, custom_item,
                                           for_coffee_only),
                   open |-> is_registration_open,
                   participants |-> participants,
                   itemsFile |-> itemsFile]

NextForm == Tick \/ FormPost

SpecForm == InitForm /\ [][NextForm]_vars

-----------------------------------------------------------------------------
(* SpecTable: the handlers that change the registration table, each run    *)
(* to completion, minutes after the cutoff of December's third Sunday,     *)
(* when registration for January's event is open and the thread's reset    *)
(* is due.                                                                 *)

TableSelectedItems == {ItemStr(Brot, "cap")}
TableCustomItems == {NoItem, ItemStr(SzE, "lower"), ItemStr(Brot, "upper")}

\* admin_add_participant (POST /admin/add)
admin_add_participant(name, email, selected_item, custom_item, for_coffee_only) ==
    LET taken_items_info == participants
        item_lower == Lower(IF custom_item # NoItem THEN custom_item ELSE selected_item)
        item_to_add == IF custom_item # NoItem THEN Capitalize(Lower(custom_item))
                       ELSE selected_item
    IN /\ Len(participants) < MaxParticipants
       /\ IF for_coffee_only
          THEN /\ participants' = Append(participants, Row(name, NoItem, TRUE))
               /\ UNCHANGED itemsFile
          ELSE IF item_lower \in {Lower(r.item) : r \in RowSet(taken_items_info)}
          THEN UNCHANGED <<participants, itemsFile>>
          ELSE /\ itemsFile' =
                    IF custom_item # NoItem
                       /\ item_lower \notin {Lower(i) : i \in itemsFile}
                    THEN itemsFile \cup {Capitalize(Lower(custom_item))}
                    ELSE itemsFile
               /\ participants' = Append(participants, Row(name, item_to_add, FALSE))
       /\ UNCHANGED <<now, cfgOverride, cfgCancelled, logFile, bg, hist, arg, ret>>

\* DatabaseManager.delete_entry: DELETE FROM brunch_participants WHERE name = ?
db_delete_entry(name) == SelectSeq(participants, LAMBDA r : r.name # name)

\* confirm_delete (POST /confirm_delete/<name>)
confirm_delete(name) ==
    /\ participants' = db_delete_entry(name)
    /\ UNCHANGED <<now, cfgOverride, cfgCancelled, itemsFile, logFile, bg, hist,
                   arg, ret>>

\* delete_entry (POST /admin/delete/<name>)
delete_entry(name) ==
    /\ participants' = db_delete_entry(name)
    /\ UNCHANGED <<now, cfgOverride, cfgCancelled, itemsFile, logFile, bg, hist,
                   arg, ret>>

InitTable ==
    /\ now = Clock(Date(MainEvent.y, MainEvent.m, MainEvent.d), Hms(15, 1, 0))
    /\ cfgOverride = NoRow
    /\ cfgCancelled = "none"
    /\ participants = << >>
    /\ itemsFile = TableSelectedItems
    /\ logFile = {}
    /\ bg = BgState("run", 0)
    /\ hist = Hist("none", -1, -1, "none")
    /\ arg = NoArg
    /\ ret = NoRet

TablePost ==
    \E name \in ValidNames, selected_item \in TableSelectedItems,
       custom_item \in TableCustomItems, for_coffee_only \in BOOLEAN :
        /\ index_post(name, "op@darc.de", selected_item, custom_item, for_coffee_only)
        /\ UNCHANGED <<hist, ret>>

AdminAdd ==
    \E name \in ValidNames, selected_item \in TableSelectedItems,
       custom_item \in TableCustomItems, for_coffee_only \in BOOLEAN :
        admin_add_participant(name, "op@darc.de", selected_item, custom_item,
                              for_coffee_only)

ConfirmDelete == \E name \in ValidNames : confirm_delete(name)

DeleteEntry == \E name \in ValidNames : delete_entry(name)

NextTable ==
    \/ TablePost
    \/ AdminAdd
    \/ ConfirmDelete
    \/ DeleteEntry
    \/ reset_db
    \/ reset_database_at_event_time

SpecTable == InitTable /\ [][NextTable]_vars

-----------------------------------------------------------------------------
(* SpecRace: one request to update_settings handled by a thread of the     *)
(* web server while the reset thread runs one iteration of its loop, each  *)
(* call of the DatabaseManager (one committed statement) a step.  bg holds *)
(* the position of the reset thread and its local variable override, arg   *)
(* the position of the handler and its form, ret the rows at the start.    *)
(* A visitor's post of the public form is handled in between as well.      *)

RaceThread(pc, override) == [pc |-> pc, wake |-> 0, override |-> override]
RaceRequest(pc, override_date, cancel_next) ==
    [pc |-> pc, override_date |-> override_date, cancel_next |-> cancel_next]

\* Minutes after the cutoff of December's third Sunday.
RaceTime == Clock(Date(MainEvent.y, MainEvent.m, MainEvent.d), Hms(15, 1, 0))

InitRace ==
    /\ now = RaceTime
    /\ cfgOverride \in {NoRow} \cup {formatted(v) : v \in OverrideInputs}
    /\ cfgCancelled \in {"none", "0", "1"}
    /\ participants \in {<< >>, <<Row("DO1ABC", ItemStr(Brot, "cap"), FALSE)>>}
    /\ itemsFile = {ItemStr(Brot, "cap")}
    /\ logFile = {}
    /\ bg = RaceThread("poll", NotRead)
    /\ hist = Hist("none", -1, -1, "none")
    /\ arg \in {RaceRequest("start", v, c) : v \in OverrideInputs, c \in BOOLEAN}
    /\ ret = [fn |-> "race", override |-> cfgOverride, cancelled |-> cfgCancelled]

\* while True: if should_reset_database(): ... else: time.sleep(60)
ThreadPoll ==
    /\ bg.pc = "poll"
    /\ bg' = RaceThread(IF should_reset_database THEN "log" ELSE "asleep", NotRead)
    /\ UNCHANGED <<now, cfgOverride, cfgCancelled, participants, itemsFile,
                   logFile, hist, arg, ret>>

\* save_participant_log()
ThreadLog ==
    /\ bg.pc = "log"
    /\ logFile' = save_participant_log
    /\ bg' = RaceThread("clear", NotRead)
    /\ UNCHANGED <<now, cfgOverride, cfgCancelled, participants, itemsFile,
                   hist, arg, ret>>

\* db_manager.reset_db()
ThreadClear ==
    /\ bg.pc = "clear"
    /\ participants' = db_reset_db
    /\ bg' = RaceThread("read", NotRead)
    /\ UNCHANGED <<now, cfgOverride, cfgCancelled, itemsFile, logFile, hist,
                   arg, ret>>

\* override = db_manager.get_config('next_date_override'), and what the
\* thread decides to write for the value it has read.
ThreadRead ==
    /\ bg.pc = "read"
    /\ LET after == reset_schedule_of(cfgOverride, cfgCancelled)
       IN bg' = IF after.exc # "none" THEN RaceThread("dead", cfgOverride)
                ELSE IF Truthy(cfgOverride)
                THEN RaceThread("write_override", after.override)
                ELSE RaceThread("write_cancelled", cfgOverride)
    /\ UNCHANGED <<now, cfgOverride, cfgCancelled, participants, itemsFile,
                   logFile, hist, arg, ret>>

\* db_manager.set_config('next_date_override', ...)
ThreadWriteOverride ==
    /\ bg.pc = "write_override"
    /\ cfgOverride' = bg.override
    /\ bg' = RaceThread("write_cancelled", bg.override)
    /\ UNCHANGED <<now, cfgCancelled, participants, itemsFile, logFile, hist,
                   arg, ret>>

\* db_manager.set_config('next_date_cancelled', '0'), then time.sleep
ThreadWriteCancelled ==
    /\ bg.pc = "write_cancelled"
    /\ cfgCancelled' = "0"
    /\ bg' = RaceThread("asleep", bg.override)
    /\ UNCHANGED <<now, cfgOverride, participants, itemsFile, logFile, hist,
                   arg, ret>>

\* update_settings: db_manager.set_config('next_date_override', ...)
RequestWriteOverride ==
    /\ arg.pc = "start"
    /\ cfgOverride' = formatted(arg.override_date)
    /\ arg' = [arg EXCEPT !.pc = "override_written"]
    /\ UNCHANGED <<now, cfgCancelled, participants, itemsFile, logFile, bg,
                   hist, ret>>

\* update_settings: db_manager.set_config('next_date_cancelled', ...)
RequestWriteCancelled ==
    /\ arg.pc = "override_written"
    /\ cfgCancelled' = IF arg.cancel_next THEN "1" ELSE "0"
    /\ arg' = [arg EXCEPT !.pc = "done"]
    /\ UNCHANGED <<now, cfgOverride, participants, itemsFile, logFile, bg,
                   hist, ret>>

\* index (POST /) handled by another thread of the web server: its
\* add_brunch_entry is one committed INSERT.
RequestAddEntry ==
    /\ index_post("DL2XYZ", "op@darc.de", ItemStr(Eier, "cap"), NoItem, FALSE)
    /\ index_answer("DL2XYZ", "op@darc.de", ItemStr(Eier, "cap"), NoItem, FALSE)
           = "added"
    /\ UNCHANGED <<hist, ret>>

NextRace ==
    \/ RequestAddEntry
    \/ ThreadPoll
    \/ ThreadLog
    \/ ThreadClear
    \/ ThreadRead
    \/ ThreadWriteOverride
    \/ ThreadWriteCancelled
    \/ RequestWriteOverride
    \/ RequestWriteCancelled

SpecRace == InitRace /\ [][NextRace]_vars

-----------------------------------------------------------------------------
(* What the claims speak of, stated without the code's arithmetic.         *)

IsSunday(y, m, d) == Weekday(y, m, d) = 6

\* The day of the month of the third Sunday of month m of year y.
ThirdSundayDay(y, m) ==
    LET sundays == {d \in 1..DaysInMonth(y, m) : IsSunday(y, m, d)}
    IN CHOOSE d \in sundays : Cardinality({k \in sundays : k < d}) = 2

ThirdSunday(y, m) == Date(y, m, ThirdSundayDay(y, m))

FollowingMonth(y, m) == IF m = 12 THEN [y |-> y + 1, m |-> 1] ELSE [y |-> y, m |-> m + 1]

ThirdSundayOfFollowingMonth(y, m) ==
    ThirdSunday(FollowingMonth(y, m).y, FollowingMonth(y, m).m)

\* Wall-clock order: the clock t against the time s of the day dt.
WallBefore(t, dt, s) ==
    \/ DateLess(t, dt)
    \/ (Date(t.y, t.m, t.d) = dt /\ t.s < s)

WallAfter(t, dt, s) ==
    \/ DateLess(dt, t)
    \/ (Date(t.y, t.m, t.d) = dt /\ t.s > s)

DateOfStr(v) == Date(v.y, v.m, v.d)
ValidOverride(v) == Truthy(v) /\ ParsesDmy(v)

(* C1: for every year and month 1..12, event_date_for_month(year, month)   *)
(* is a date of that month, a Sunday, and the third Sunday of the month    *)
(* (so its day is in 15..21); March 2024 gives 17.03.2024.                 *)
C1_ThirdSunday ==
    ret.fn = "event_date_for_month" =>
        LET r == ret.val
        IN /\ r.y = arg.y /\ r.m = arg.m
           /\ IsSunday(r.y, r.m, r.d)
           /\ Cardinality({k \in 1..r.d : IsSunday(r.y, r.m, k)}) = 3
           /\ r.d \in 15..21
           /\ (arg.y = 2024 /\ arg.m = 3 => r.d = 17)

C1_Witness ==
    /\ ret.fn = "event_date_for_month"
    /\ arg.y = 2024 /\ arg.m = 3
    /\ ret.val.d = 17


(* C2: with no override stored, next_brunch_date() at the time now is the  *)
(* third Sunday of now's month when now is not after 15:00 of that Sunday, *)
(* and the third Sunday of the following month (January of the next year   *)
(* after December) when now is strictly after it.                          *)
C2_DefaultNext ==
    (ret.fn = "resolver" /\ ~ Truthy(cfgOverride)) =>
        LET ts == ThirdSunday(now.y, now.m)
        IN IF WallAfter(now, ts, Hms(15, 0, 0))
           THEN DateOfStr(ret.next) = ThirdSundayOfFollowingMonth(now.y, now.m)
           ELSE DateOfStr(ret.next) = ts

\* Evaluated in December after the cutoff: the date is in January of the next year.
C2_Witness ==
    /\ ret.fn = "resolver"
    /\ ~ Truthy(cfgOverride)
    /\ now.m = 12
    /\ WallAfter(now, ThirdSunday(now.y, 12), Hms(15, 0, 0))
    /\ ret.next.y = now.y + 1 /\ ret.next.m = 1

(* C3: whenever the stored override is non-empty and a valid dd.mm.yyyy    *)
(* date, next_brunch_date() returns exactly that override for every now,   *)
(* whether or not it is a Sunday, lies in the past, or is earlier or later *)
(* than the third Sunday of its month.                                     *)
C3_OverrideVerbatim ==
    (ret.fn = "resolver" /\ ValidOverride(cfgOverride)) => ret.next = cfgOverride

\* An override that is no Sunday, lies in the past and precedes the third
\* Sunday of its month.
C3_Witness ==
    /\ ret.fn = "resolver"
    /\ ValidOverride(cfgOverride)
    /\ ~ IsSunday(cfgOverride.y, cfgOverride.m, cfgOverride.d)
    /\ DateLess(DateOfStr(cfgOverride), now)
    /\ DateLess(DateOfStr(cfgOverride), ThirdSunday(cfgOverride.y, cfgOverride.m))
    /\ ret.next = cfgOverride

\* now lies in the closed wall-clock window [D - 2 days 00:00, D 15:00].
InClosedWindow(t, D) ==
    /\ ~ WallBefore(t, AddDays(D, -2), Hms(0, 0, 0))
    /\ ~ WallAfter(t, D, Hms(15, 0, 0))

(* C4: is_registration_open() at the time now is false if and only if the  *)
(* event is cancelled or D - 2 days 00:00 <= now <= D 15:00, D being the   *)
(* date next_brunch_date() returns (the override when one is set); both    *)
(* ends of the window are closed.                                          *)
C4_RegistrationWindow ==
    ret.fn = "resolver" =>
        ((ret.open = FALSE) <=>
            (cfgCancelled = "1" \/ InClosedWindow(now, DateOfStr(ret.next))))

(* C8: should_reset_database() at the time now is true if and only if now  *)
(* is strictly after 15:00 on the date current_brunch_date() returns: the  *)
(* valid override if one is stored, otherwise the third Sunday of now's    *)
(* own month; it is false at exactly 15:00:00.                             *)
C8_ResetAfterCutoff ==
    ret.fn = "resolver" =>
        LET D == IF ValidOverride(cfgOverride) THEN DateOfStr(cfgOverride)
                 ELSE ThirdSunday(now.y, now.m)
        IN /\ DateOfStr(ret.current) = D
           /\ (ret.reset <=> WallAfter(now, D, Hms(15, 0, 0)))


\* The instant of the wall-clock time s of the day dt in Europe/Berlin.
WallInstant(dt, s) == Instant(Aware(dt, s, BerlinOffset(dt, s)))

\* A reset runs: the thread finds should_reset_database() true, or the
\* handler of /reset_db is called.
ThreadResets == reset_database_at_event_time /\ should_reset_database
ResetRuns == ThreadResets \/ reset_db

\* The reset ran to its end: the thread goes to sleep, the handler answers 200.
ResetCompletes ==
    \/ (ThreadResets /\ bg'.pc = "run")
    \/ (reset_db /\ hist'.status = "200")

(* C5: when a reset runs (thread or /reset_db) while a valid override is   *)
(* stored whose date is earlier than the third Sunday of its month, the    *)
(* reset completes and leaves the stored override equal to the third       *)
(* Sunday of the following month (January of the next year for December).  *)
C5_OneOffAdvances ==
    [][ ( /\ ResetRuns
          /\ ValidOverride(cfgOverride)
          /\ DateLess(DateOfStr(cfgOverride),
                      ThirdSunday(cfgOverride.y, cfgOverride.m)) )
        => ( /\ ResetCompletes
             /\ cfgOverride' = strftime_dmy(
                    ThirdSundayOfFollowingMonth(cfgOverride.y, cfgOverride.m)) )
      ]_vars

(* C6: when a reset runs (thread or /reset_db) while a valid override is   *)
(* stored whose date is equal to or later than the third Sunday of its     *)
(* month, the reset completes and leaves the stored override empty.        *)
C6_RegularClears ==
    [][ ( /\ ResetRuns
          /\ ValidOverride(cfgOverride)
          /\ ~ DateLess(DateOfStr(cfgOverride),
                        ThirdSunday(cfgOverride.y, cfgOverride.m)) )
        => (ResetCompletes /\ cfgOverride' = EmptyStr)
      ]_vars

\* Steps that only evaluate the resolver: a registration request, a poll of
\* the thread that finds nothing to reset, the passing of time.
OnlyEvaluates ==
    \/ IndexPost
    \/ (reset_database_at_event_time /\ ~ should_reset_database)
    \/ Tick

(* C7: is_event_cancelled() is true exactly when the most recent write to  *)
(* the cancelled flag stored '1' (false when it stored '0' or nothing was  *)
(* ever written); evaluating the date functions never changes the flag or  *)
(* what is_event_cancelled() returns.                                      *)
C7_CancelledFlag ==
    /\ (is_event_cancelled <=> hist.written = "1")
    /\ [][ /\ (is_event_cancelled' <=> hist'.written = "1")
           /\ ( (cfgCancelled' # cfgCancelled
                    \/ is_event_cancelled' # is_event_cancelled)
                 => ~ OnlyEvaluates ) ]_vars

\* The flag was set, and the thread has just polled with the flag set.
C7_Witness ==
    /\ is_event_cancelled
    /\ hist.written = "1"
    /\ bg.pc = "run"
    /\ bg.wake = NowInstant + 60

(* C9: the thread resets once per event: after it has reset, it resets     *)
(* again only when the cutoff of the next event, the one next_brunch_date()*)
(* returned after that reset, has passed.                                  *)
C9_OncePerEvent ==
    [][ (ThreadResets /\ hist.cleared >= 0) => NowInstant > hist.due ]_vars

\* The event the schedule stands for at present: the valid override, else
\* the third Sunday of the present month.
CurrentEvent ==
    IF ValidOverride(cfgOverride) THEN DateOfStr(cfgOverride)
    ELSE ThirdSunday(now.y, now.m)

(* C10: for every event, once its 15:00 cutoff has passed, the thread      *)
(* eventually empties the registration table (given that it is scheduled   *)
(* and time advances), for every successive event, with or without an      *)
(* override stored.  As a property of states: while the cutoff of the      *)
(* present event has passed and the thread has not emptied the table       *)
(* since, the thread is running, so that its next poll can do so.          *)
C10_EventuallyReset ==
    ( /\ WallAfter(now, CurrentEvent, Hms(15, 0, 0))
      /\ hist.cleared <= WallInstant(CurrentEvent, Hms(15, 0, 0)) )
        => bg.pc = "run"

\* A stored override that is non-empty and no valid dd.mm.yyyy date.
Malformed(v) == Truthy(v) /\ ~ ValidOverride(v)

(* C12: update_settings stores an empty override whenever the submitted    *)
(* override_date is empty or no valid yyyy-mm-dd date, and the same        *)
(* calendar date in the form dd.mm.yyyy when it is one; what it stores is  *)
(* never malformed.                                                        *)
C12_UpdateStoresValidOrEmpty ==
    [][ \A override_date \in OverrideInputs, cancel_next \in BOOLEAN :
          update_settings(override_date, cancel_next) =>
            /\ ( (~ Truthy(override_date) \/ ~ ParsesYmd(override_date))
                    => cfgOverride' = EmptyStr )
            /\ ( (Truthy(override_date) /\ ParsesYmd(override_date))
                    => /\ ValidOverride(cfgOverride')
                       /\ DateOfStr(cfgOverride') = DateOfStr(override_date) )
            /\ ~ Malformed(cfgOverride')
      ]_vars

(* C13: when the stored override is non-empty but no valid dd.mm.yyyy      *)
(* date, next_brunch_date, current_brunch_date, is_registration_open,      *)
(* should_reset_database and should_show_exception_notice return, at every *)
(* now, exactly what they return when no override is stored.               *)
C13_MalformedFallsBack ==
    (ret.fn = "resolver" /\ Malformed(cfgOverride)) =>
        /\ ret.next = next_brunch_date_at(NoRow, now)
        /\ ret.current = current_brunch_date_at(NoRow, now)
        /\ ret.open = is_registration_open_at(NoRow, cfgCancelled, now)
        /\ ret.reset = should_reset_database_at(NoRow, now)
        /\ ret.notice = should_show_exception_notice_at(NoRow)

\* A stored '01.01.999' after the cutoff of the month's third Sunday: the
\* reset is due and registration is open for the following month.
C13_Witness ==
    /\ ret.fn = "resolver"
    /\ cfgOverride = ShortYearStr(1, 1, 999)
    /\ ret.reset /\ ret.open /\ ~ ret.notice
    /\ ret.next.m = FollowingMonth(now.y, now.m).m

(* C11: a POST to the public form that arrives while                       *)
(* is_registration_open() is false (event cancelled, or now inside the     *)
(* closed window) adds no participant and leaves the registration table    *)
(* and the item file as they were.                                         *)
C11_ClosedPostChangesNothing ==
    (ret.fn = "index" /\ ~ ret.open) =>
        /\ participants = ret.participants
        /\ itemsFile = ret.itemsFile

\* A well-formed registration refused inside the closed window (event not
\* cancelled) while an earlier registration is in the table.
C11_Witness ==
    /\ ret.fn = "index" /\ ~ ret.open /\ ret.answer = "closed"
    /\ cfgCancelled # "1"
    /\ Len(participants) = 1
    /\ participants = ret.participants

(* C14 as claimed: a malformed stored override is discarded only by        *)
(* update_settings; every read operation and every reset (thread or        *)
(* /reset_db) leaves it unchanged.                                         *)
C14_OnlyAdminDiscards ==
    [][ (Malformed(cfgOverride) /\ cfgOverride' # cfgOverride) => UpdateSettings ]_vars

(* C14 amended: a malformed stored override is left unchanged by every     *)
(* read operation; a reset (thread or /reset_db) runs to its end and       *)
(* stores an empty override in its place, as update_settings does for an   *)
(* input it cannot parse.                                                  *)
C14_ResetDiscardsToo ==
    [][ Malformed(cfgOverride) =>
          /\ (cfgOverride' # cfgOverride => ~ OnlyEvaluates)
          /\ (ResetRuns => (ResetCompletes /\ cfgOverride' = EmptyStr)) ]_vars

\* The thread has just reset, found '01.01.999' stored and left '' stored.
C14_Witness ==
    /\ hist.found = ShortYearStr(1, 1, 999)
    /\ hist.cleared = NowInstant
    /\ cfgOverride = EmptyStr
    /\ bg.pc = "run"

(* C15: no exception escapes the resolver or the reset: whatever schedule  *)
(* is stored (no override, a valid or a malformed one; cancelled or not),  *)
(* the poll loop of the thread never stops: in every reachable state the   *)
(* thread is polling, resetting or sleeping, and will poll again.          *)
C15_PollLoopNeverStops == bg.pc = "run"

(* C16: what the administrator has set for the upcoming event (the event   *)
(* next_brunch_date() named when update_settings ran), the cancelled flag  *)
(* and the override, is cleared by the thread only once 15:00 of that      *)
(* event's day has passed: no reset by the thread changes either row       *)
(* before then.                                                            *)
C16_ClearedOnlyAfterCutoff ==
    [][ ( /\ hist.setfor # NoRow
          /\ (cfgCancelled' # cfgCancelled \/ cfgOverride' # cfgOverride)
          /\ ThreadResets )
        => WallAfter(now, DateOfStr(hist.setfor), Hms(15, 0, 0)) ]_vars

(* C17: once 15:00 of the day of a stored valid override has passed, the   *)
(* thread eventually consumes the override (the stored value is no longer  *)
(* that past date), and next_brunch_date() returns a third Sunday of a     *)
(* following month from then on.  As a property of states: while a valid   *)
(* override whose cutoff has passed is still stored, the thread is         *)
(* running, so that its next poll can consume it.                          *)
C17_PassedOverrideConsumed ==
    ( /\ ValidOverride(cfgOverride)
      /\ WallAfter(now, DateOfStr(cfgOverride), Hms(15, 0, 0)) )
        => /\ bg.pc = "run"
           /\ bg.wake <= NowInstant + SecondsPerDay

(* C18: an iteration of the thread that finds should_reset_database() true *)
(* archives the registrations, then empties the table, then updates the    *)
(* schedule (the cancelled flag is cleared), and then sleeps for a full    *)
(* day before it polls again; an iteration that finds it false changes     *)
(* nothing and polls again after one minute.                               *)
C18_IterationSteps ==
    [][ reset_database_at_event_time =>
          IF should_reset_database
          THEN /\ logFile' = logFile \cup {[name |-> r.name, item |-> r.item] :
                                              r \in RowSet(participants)}
               /\ participants' = << >>
               /\ cfgCancelled' = "0"
               /\ bg' = BgState("run", NowInstant + SecondsPerDay)
          ELSE /\ UNCHANGED <<cfgOverride, cfgCancelled, participants, itemsFile,
                               logFile>>
               /\ bg' = BgState("run", NowInstant + 60) ]_vars

\* The rows after the thread's iteration has run alone on the rows
\* override and cancelled at the time t.
AfterIteration(override, cancelled, t) ==
    IF should_reset_database_at(override, t)
    THEN LET after == reset_schedule_of(override, cancelled)
         IN <<after.override, after.cancelled>>
    ELSE <<override, cancelled>>

\* The rows after update_settings has run alone.
AfterRequest(request) ==
    <<formatted(request.override_date), IF request.cancel_next THEN "1" ELSE "0">>

(* C19: update_settings and the reset do not race on the schedule: for     *)
(* every interleaving of the two, the override and the cancelled flag at   *)
(* the end are those of one of the two serial orders (the request after    *)
(* the thread's iteration, or the iteration after the request).            *)
C19_SerialOutcome ==
    (arg.pc = "done" /\ bg.pc \in {"asleep", "dead"}) =>
        <<cfgOverride, cfgCancelled>> \in
            { AfterRequest(arg),
              AfterIteration(AfterRequest(arg)[1], AfterRequest(arg)[2], now) }

\* The table, the archive and the two rows as a reset finds or leaves them.
Stored == [participants |-> participants, logFile |-> logFile,
           override |-> cfgOverride, cancelled |-> cfgCancelled]

\* What the side effects of a reset leave of st: those of the thread
\* (archive, empty the table, update the schedule) or those of /reset_db
\* (empty the table, update the schedule).
ResetEffect(by, st) ==
    LET after == reset_schedule_of(st.override, st.cancelled)
    IN [participants |-> db_reset_db,
        logFile |-> IF by = "thread"
                    THEN save_participant_log_of(st.logFile, st.participants)
                    ELSE st.logFile,
        override |-> after.override,
        cancelled |-> after.cancelled]

(* C20: the reset is idempotent relative to already-empty storage: the     *)
(* side effects of a reset (thread or /reset_db) performed a second time   *)
(* directly after a first reset, nothing in between, leave the table, the  *)
(* archive, the override and the cancelled flag exactly as the first reset *)
(* left them.  ResetEffect is what the resets of the program do.           *)
C20_ResetIdempotent ==
    /\ [](\A first \in {"thread", "reset_db"}, second \in {"thread", "reset_db"} :
            ResetEffect(second, ResetEffect(first, Stored)) = ResetEffect(first, Stored))
    /\ [][ /\ (ThreadResets => Stored' = ResetEffect("thread", Stored))
           /\ (reset_db => Stored' = ResetEffect("reset_db", Stored)) ]_vars

\* The state a first reset by the thread has left: a registration was
\* archived and a stored override was read.
C20_Witness ==
    /\ hist.cleared = NowInstant
    /\ Truthy(hist.found)
    /\ logFile # {}
    /\ participants = << >>
    /\ Stored = ResetEffect("reset_db", Stored)

(* C21: a registration accepted through the public form, which is for the  *)
(* event next_brunch_date() named at that time, is not deleted by the      *)
(* thread before 15:00 of that event's day has passed: the thread resets   *)
(* a table holding such a registration only after that cutoff.             *)
C21_RegistrationKept ==
    [][ (hist.regfor # NoRow /\ ThreadResets)
        => WallAfter(now, DateOfStr(hist.regfor), Hms(15, 0, 0)) ]_vars

(* C22: under any interleaving of request handlers with the thread, every  *)
(* row that a reset of the thread deletes was written to the archive by    *)
(* that same reset (the archive is empty before it) before the deletion:   *)
(* no registration added meanwhile is deleted without being archived.      *)
C22_DeletedRowsArchived ==
    [][ ThreadClear =>
          \A r \in RowSet(participants) :
              [name |-> r.name, item |-> r.item] \in logFile ]_vars

(* C23: after any sequence of public registrations, additions by the       *)
(* administrator, deletions and resets, each handler run to completion, no *)
(* two rows of the table hold the same non-empty item, items compared      *)
(* without regard to case.                                                 *)
C23_ItemsUnique ==
    \A i \in 1..Len(participants), j \in 1..Len(participants) :
        (i # j /\ participants[i].item # NoItem)
            => Lower(participants[i].item) # Lower(participants[j].item)

(* C24: when the handler of /reset_db answers with an error (500), the     *)
(* table, the override and the cancelled flag are as they were before the  *)
(* request; when it answers with success (200), the table is empty and the *)
(* cancelled flag is false.                                                *)
C24_ResetDbAllOrNothing ==
    [][ reset_db =>
          /\ hist'.status = "500" =>
                /\ participants' = participants
                /\ cfgOverride' = cfgOverride
                /\ cfgCancelled' = cfgCancelled
          /\ hist'.status = "200" =>
                /\ participants' = << >>
                /\ cfgCancelled' = "0" ]_vars

(* C25: starting from an empty configuration store, after any sequence of  *)
(* update_settings calls (valid, invalid or empty dates) and resets (by    *)
(* the thread or /reset_db), the stored override is absent, empty, or a    *)
(* string that parses as a valid dd.mm.yyyy date: the program's own writes *)
(* never store a malformed override.                                       *)
C25_NeverMalformed == cfgOverride = NoRow \/ ~ Malformed(cfgOverride)

=============================================================================
